---- MODULE Spec2Model ----
(***************************************************************************)
(* A model of the BolAPI client library (src/BolAPI/BolAPI.py): the        *)
(* session kept by one client instance, get_access_token, the recursive    *)
(* request primitive with its 401 and 429 handling, and the facade methods *)
(* built on it.  The remote service and the token endpoint are the         *)
(* environment: each answer is a nondeterministic choice.                  *)
(***************************************************************************)
EXTENDS Integers, Sequences, FiniteSets, TLC

\* ------------------------------------------------------------------ bounds
\* The largest number of 401 answers the service gives during one public method.
Max401 == 2
\* The largest number of 429 answers the service gives during one public method.
Max429 == 2
\* The number of distinct bearer tokens the token endpoint can hand out.
MaxTokens == 2
\* The largest number of PENDING reports the service gives to one job.
MaxPending == 2
\* The largest number of periods asked of, and returned by, the insights resource.
MaxPeriods == 2
\* The largest number of entries of a ratings list.
MaxRatings == 2
\* The largest number of data rows of an invoice spreadsheet.
MaxDataRows == 2
\* The largest number of bearer tokens the service lets expire.
MaxExpiries == 1

\* ------------------------------------------------------- program constants
\* time.sleep(1550) after a 429
RATE_LIMIT_SLEEP == 1550
\* time.sleep(60) between two status checks
POLL_SLEEP == 60
\* df.iloc[6]: the row of the decoded table that names the columns
HEADER_ROW == 6
\* np.arange(0, 7): the rows 0..6 of the decoded table are dropped
DROPPED_ROWS == 7

\* ------------------------------------------------------------ header dicts
\* A Python dict of headers is a record over the three header names the
\* library uses; a key the dict does not hold has the value Absent.
HeaderNames == {"Accept", "Content-Type", "Authorization"}
Absent == <<"absent", 0>>
Media(s) == <<s, 0>>
EmptyDict == [k \in HeaderNames |-> Absent]
Keys(d) == {k \in HeaderNames : d[k] # Absent}

\* f'Bearer {access_token}'
Bearer(access_token) == <<"Bearer", access_token>>

\* dict.update: base.copy() updated with over, over wins per key
DictUpdate(base, over) ==
  [k \in HeaderNames |-> IF over[k] # Absent THEN over[k] ELSE base[k]]

\* self.headers as set by each subclass constructor
Families == {"Retailer", "Advertising", "AdvertisingV10", "AdvertisingV9"}
BaseHeaders(fam) ==
  LET m == CASE fam = "Retailer"       -> Media("application/vnd.retailer.v9+json")
             [] fam = "Advertising"    -> Media("application/vnd.advertiser.v11+json")
             [] fam = "AdvertisingV10" -> Media("application/vnd.advertiser.v10+json")
             [] OTHER                  -> Media("application/vnd.advertiser.v9+json")
  IN [EmptyDict EXCEPT !["Accept"] = m, !["Content-Type"] = m]

\* ------------------------------------------------------ header arguments
\* The headers argument of request is None, a dict of the caller, or (in a
\* recursive call) the very object self.headers, which later updates of the
\* session show through.
NoneArg == [ref |-> "none", val |-> EmptyDict]
SelfArg == [ref |-> "self", val |-> EmptyDict]
OwnArg(d) == [ref |-> "own", val |-> d]
VARIABLES
  family,    \* which subclass the client is
  headers,   \* self.headers
  valid,     \* self.valid: "None", "True" or "False"
  issued,    \* token endpoint: the number of tokens handed out so far
  op,        \* the public method in progress or last finished
  fpc,       \* the position inside that method
  args,      \* the arguments of that method
  result,    \* what the method returned or raised
  diag,      \* the diagnostics printed during the method
  rq,        \* request: the arguments of the current activation
  rpc,       \* request: "idle", "send", "reauth", "backoff" or "return"
  ret,       \* request: the (status_code, response) pair returned
  sent,      \* the last HTTP request dispatched to the API
  orig,      \* the first HTTP request dispatched by the current request call
  cnt,       \* per request call: requests sent, 401s, 429s, re-auths, sleeps, the last
             \* status received, the re-issues in a row after a failed re-auth
  tokAns,    \* the last get_access_token call: the endpoint's answer, the token in it, the exception
  job,       \* per asynchronous method: job id, checks, sleeps, fetches
  call,      \* a reshaping method's arguments and the final answer to its GET
  out        \* what that method returned or raised

vars == <<family, headers, valid, issued, op, fpc, args, result, diag,
          rq, rpc, ret, sent, orig, cnt, tokAns, job, call, out>>
facVars == <<call, out>>
sessVars == <<family, headers, valid, issued, tokAns>>
reqVars == <<rq, rpc, ret, sent, orig, cnt>>

\* ------------------------------------------------------- the token endpoint
\* What login.bol.com/token can answer: a status, and a body that is JSON
\* holding an access_token ("token"), other JSON ("json") or not JSON at
\* all ("text", as a gateway's error page is).
TokenAnswers ==
  { [status |-> 200, body |-> "token"],
    [status |-> 200, body |-> "json"],
    [status |-> 400, body |-> "json"],
    [status |-> 503, body |-> "text"] }

\* get_access_token: the session it leaves behind when the token endpoint
\* answers a, t being the access_token of a "token" body.  raised names
\* the exception that leaves the method, "no" when it returns normally.
get_access_token(h, v, a, t) ==
  IF a.body = "text"
  THEN \* response = request.json() raises before the status is looked at
       [headers |-> h, valid |-> v, raised |-> "JSONDecodeError", printed |-> FALSE]
  ELSE IF a.status = 200
       THEN IF a.body = "token"
            THEN [headers |-> DictUpdate(h, [EmptyDict EXCEPT !["Authorization"] = Bearer(t)]),
                  valid |-> "True", raised |-> "no", printed |-> FALSE]
            ELSE \* self.valid = True, then response['access_token'] raises
                 [headers |-> h, valid |-> "True", raised |-> "KeyError", printed |-> FALSE]
       ELSE [headers |-> h, valid |-> "False", raised |-> "no", printed |-> TRUE]

\* The token endpoint hands out a fresh token with each "token" body.
Issues(a) == a.status = 200 /\ a.body = "token"

\* ------------------------------------------------------------ the service
Methods == {"GET", "POST", "PUT"}
Statuses == {200, 202, 401, 404, 429}
\* The statuses the service answers a request with: 202 only to a POST.
Answers(method) == IF method = "POST" THEN Statuses ELSE Statuses \ {202}
Url(path, id) == [path |-> path, id |-> id]
NoReq == [method |-> "none", url |-> Url("", 0), data |-> "none", headers |-> EmptyDict]
NoResp == [code |-> 0, of |-> [method |-> "none", url |-> Url("", 0), data |-> "none",
                             accept |-> Absent, ctype |-> Absent],
           job |-> "absent", id |-> 0]
NoRet == <<0, NoResp>>

\* What the service's answer depends on besides the bearer token.
Content(req) ==
  [method |-> req.method, url |-> req.url, data |-> req.data,
   accept |-> req.headers["Accept"], ctype |-> req.headers["Content-Type"]]

\* The response object: the status code, the resource served (decided by
\* the request's content) and the body's fields the facades read: job is
\* the body's 'status' and id its 'processStatusId', 'entityId' or 'url',
\* "absent" and 0 when the body does not hold the key.
Respond(req, code, pick) ==
  [code |-> code, of |-> Content(req), job |-> pick.job, id |-> pick.id]

\* The paths whose 202 body names the job's process status, and those
\* whose 200 body names a download URL; 0 stands for a body without the key.
SubmitPaths ==
  { "retailer/offers/export",
    "advertiser/sponsored-products/reporting/bulk-reports?entity-type&start-date&end-date",
    "advertiser/sponsored-products/campaign-performance/reports?start-date&end-date" }
ReportPaths ==
  { "advertiser/sponsored-products/reporting/bulk-reports/{report_id}",
    "advertiser/sponsored-products/campaign-performance/reports/{report_id}" }
\* The path whose 200 body names the URL of the product's primary image.
AssetPaths == { "retailer/products/{ean}/assets?usage=PRIMARY" }
JobReports == {"PENDING", "SUCCESS", "FAILURE", "absent"}
\* The identifiers the service uses: of a process status, of the report or
\* export a finished job made, of a signed download URL.
ProcessId == 1
EntityId == 2
DownloadId == 3
\* The bodies the service may choose from for a request to url answered code.
Picks(url, code) ==
  IF code \in {401, 429} THEN {[job |-> "absent", id |-> 0]}
  ELSE IF url.path = "shared/process-status/{process_id}"
       THEN {[job |-> j, id |-> IF j = "SUCCESS" THEN EntityId ELSE 0] : j \in JobReports}
       ELSE IF code = 202 /\ url.path \in SubmitPaths
            THEN {[job |-> "absent", id |-> i] : i \in {0, ProcessId}}
            ELSE IF code = 200 /\ url.path \in ReportPaths \cup AssetPaths
                 THEN {[job |-> "absent", id |-> i] : i \in {0, DownloadId}}
                 ELSE {[job |-> "absent", id |-> 0]}

\* ------------------------------------------------------------------ request
\* if headers: (a dict is true when it has a key; None is false)
Truthy(h) ==
  /\ h.ref # "none"
  /\ Keys(IF h.ref = "self" THEN headers ELSE h.val) # {}

\* A merge that drops the caller's overrides.
LocalHeaders_IgnoresOverrides(h) == SelfArg

\* Lines 93-98: the local variable headers after the merge.
LocalHeaders(h) ==
  IF Truthy(h)
  THEN OwnArg(DictUpdate(headers, IF h.ref = "self" THEN headers ELSE h.val))
  ELSE SelfArg

\* The dict an argument stands for when the HTTP call is made.
Deref(h) == IF h.ref = "own" THEN h.val ELSE headers

\* A recursive call that forgets the data argument.
RetryArgs_DropsData(r, local) == [r EXCEPT !.hdr = local, !.data = "none"]
\* A recursive call that issues a POST whatever the method was.
RetryArgs_AsPost(r, local) == [r EXCEPT !.hdr = local, !.method = "POST"]
\* A recursive call that forgets the headers argument.
RetryArgs_DropsHeaders(r, local) == [r EXCEPT !.hdr = NoneArg]

\* The arguments of the recursive call self.request(method, url, data, headers)
RetryArgs(r, local) == [r EXCEPT !.hdr = local]

ZeroCnt == [sent |-> 0, n401 |-> 0, n429 |-> 0, auth |-> 0, sleeps |-> 0, slept |-> 0,
            last |-> 0, streak |-> 0]
\* What a public method has done so far: the 401s and 429s the service
\* answered during it; and for an asynchronous one the final status of its
\* submit and the 202s the service gave it, the processStatusId it polls,
\* the status checks made (calls of get) and the HTTP requests they sent,
\* the PENDING reports, the
\* 60-second sleeps, the result fetches, the last job status reported, and
\* the download of the report or image (count, url, status answered, headers sent).
ZeroJob == [t401 |-> 0, t429 |-> 0, subCode |-> 0, accepted |-> 0, pid |-> 0, checks |-> 0, http |-> 0,
            pending |-> 0, sleeps |-> 0, slept |-> 0, fetches |-> 0,
            last |-> "none", downloads |-> 0, dlurl |-> 0, dlcode |-> 0, dlhdr |-> EmptyDict]
StatusPath == "shared/process-status/{process_id}"

\* A call of self.request(method, url, data, headers) from outside request.
request(method, url, data, hdr) ==
  /\ rq' = [method |-> method, url |-> url, data |-> data, hdr |-> hdr]
  /\ rpc' = "send"
  /\ cnt' = ZeroCnt
  /\ ret' = NoRet
  /\ orig' = NoReq
  /\ UNCHANGED sent
get(url, data, hdr) == request("GET", url, data, hdr)
post(url, data, hdr) == request("POST", url, data, hdr)
put(url, data, hdr) == request("PUT", url, data, hdr)

\* The requests in a row, this one included, that were re-issued after a
\* re-authentication that did not obtain a token.
Streak ==
  IF cnt.last = 401
  THEN IF tokAns.status = 200 /\ tokAns.body = "token" THEN 0 ELSE cnt.streak + 1
  ELSE cnt.streak

\* A status test that retries on 401 only.
Branch_Returns429(status) == IF status = 401 THEN "reauth" ELSE "return"

\* Lines 113-123: if status == 401 / elif status == 429 / return
Branch(status) ==
  CASE status = 401 -> "reauth"
    [] status = 429 -> "backoff"
    [] OTHER        -> "return"

\* One activation of request up to its status test: merge the headers,
\* dispatch, and branch on the status the service answers.
RequestSend ==
  /\ rpc = "send"
  /\ \E code \in Answers(rq.method) :
       /\ code = 401 => job.t401 < Max401
       /\ code = 429 => job.t429 < Max429
       /\ \E pick \in Picks(rq.url, code) :
            /\ pick.job = "PENDING" => job.pending < MaxPending
            /\ LET local == LocalHeaders(rq.hdr)
                   req == [method |-> rq.method, url |-> rq.url, data |-> rq.data,
                           headers |-> Deref(local)]
                   response == Respond(req, code, pick)
               IN /\ sent' = req
                  /\ orig' = IF cnt.sent = 0 THEN req ELSE orig
                  /\ rq' = RetryArgs(rq, local)
                  /\ job' = [job EXCEPT
                               !.t401 = IF code = 401 THEN @ + 1 ELSE @,
                               !.t429 = IF code = 429 THEN @ + 1 ELSE @,
                               !.http = IF rq.url.path = StatusPath THEN @ + 1 ELSE @,
                               !.accepted = IF fpc = "submit" /\ code = 202 THEN @ + 1 ELSE @]
                  /\ CASE Branch(code) = "reauth" ->
                            /\ rpc' = "reauth"
                            /\ cnt' = [cnt EXCEPT !.sent = @ + 1, !.n401 = @ + 1, !.last = code, !.streak = Streak]
                            /\ diag' = diag \cup {"Token expired"}
                            /\ UNCHANGED ret
                       [] Branch(code) = "backoff" ->
                            /\ rpc' = "backoff"
                            /\ cnt' = [cnt EXCEPT !.sent = @ + 1, !.n429 = @ + 1, !.last = code, !.streak = Streak]
                            /\ diag' = diag \cup {"Too many requests"}
                            /\ UNCHANGED ret
                       [] OTHER ->
                            /\ rpc' = "return"
                            /\ cnt' = [cnt EXCEPT !.sent = @ + 1, !.last = code, !.streak = Streak]
                            /\ ret' = <<code, response>>
                            /\ UNCHANGED diag
  /\ UNCHANGED <<facVars, sessVars, op, fpc, args, result>>

\* Lines 113-116: self.get_access_token(), then the recursive call.
Reauthenticate ==
  /\ rpc = "reauth"
  /\ \E a \in TokenAnswers :
       /\ Issues(a) => issued < MaxTokens
       /\ LET s == get_access_token(headers, valid, a, issued + 1)
          IN /\ headers' = s.headers
             /\ valid' = s.valid
             /\ issued' = IF Issues(a) THEN issued + 1 ELSE issued
             /\ tokAns' = [status |-> a.status, body |-> a.body, token |-> issued + 1, raised |-> s.raised]
             /\ cnt' = [cnt EXCEPT !.auth = @ + 1]
             /\ diag' = IF s.printed THEN diag \cup {"failed to retrieve access token"} ELSE diag
             /\ IF s.raised = "no"
                THEN /\ rpc' = "send"
                     /\ UNCHANGED <<fpc, result>>
                ELSE \* the exception leaves request and the method that called it
                     /\ rpc' = "idle"
                     /\ fpc' = "done"
                     /\ result' = [kind |-> "raise", code |-> 0, resp |-> NoResp, what |-> s.raised]
  /\ UNCHANGED <<facVars, family, op, args, rq, ret, sent, orig, job>>

\* Lines 118-121: time.sleep(1550), then the recursive call.
Backoff ==
  /\ rpc = "backoff"
  /\ cnt' = [cnt EXCEPT !.sleeps = @ + 1, !.slept = @ + RATE_LIMIT_SLEEP]
  /\ rpc' = "send"
  /\ UNCHANGED <<facVars, sessVars, op, fpc, args, result, diag, rq, ret, sent, orig, job>>

\* ------------------------------------------------- a caller using request
\* The header dicts a caller passes: None, {}, and the two dicts the library
\* itself passes.
XlsxHeaders ==
  [EmptyDict EXCEPT
     !["Accept"] = Media("application/vnd.retailer.v10+openxmlformats-officedocument.spreadsheetml.sheet"),
     !["Content-Type"] = Media("None")]
CsvHeaders ==
  [EmptyDict EXCEPT
     !["Accept"] = Media("application/vnd.retailer.v9+csv"),
     !["Content-Type"] = Media("application/x-www-form-urlencoded")]
\* The calls of request the model makes on behalf of the library's user.
CallArgs ==
  { [method |-> "GET",  url |-> Url("retailer/offers", 1), data |-> "none", hdr |-> NoneArg],
    [method |-> "GET",  url |-> Url("retailer/offers", 1), data |-> "none", hdr |-> OwnArg(EmptyDict)],
    [method |-> "GET",  url |-> Url("retailer/invoices", 1), data |-> "none", hdr |-> OwnArg(XlsxHeaders)],
    [method |-> "POST", url |-> Url("retailer/offers/export", 0), data |-> "format=CSV", hdr |-> NoneArg],
    [method |-> "POST", url |-> Url("retailer/offers", 0), data |-> "format=CSV", hdr |-> OwnArg(CsvHeaders)],
    [method |-> "PUT",  url |-> Url("retailer/offers", 1), data |-> "format=CSV", hdr |-> OwnArg(CsvHeaders)] }
NoArgs == [method |-> "none", url |-> Url("", 0), data |-> "none", hdr |-> NoneArg]
NoResult == [kind |-> "none", code |-> 0, resp |-> NoResp, what |-> "none"]
Idle == fpc = "done" /\ rpc = "idle"

\* get, post, put or request called by the user of the library.
CallRequest ==
  /\ Idle
  /\ \E a \in CallArgs :
       /\ request(a.method, a.url, a.data, a.hdr)
       /\ args' = a
  /\ op' = "request"
  /\ fpc' = "wait"
  /\ result' = NoResult
  /\ diag' = {}
  /\ job' = ZeroJob
  /\ UNCHANGED <<facVars, sessVars>>

\* return status, response
ReturnRequest ==
  /\ op = "request" /\ fpc = "wait" /\ rpc = "return"
  /\ result' = [kind |-> "response", code |-> ret[1], resp |-> ret[2], what |-> "none"]
  /\ fpc' = "done"
  /\ rpc' = "idle"
  /\ UNCHANGED <<facVars, sessVars, op, args, diag, rq, ret, sent, orig, cnt, job>>

\* ------------------------------------------------- asynchronous methods
None == [kind |-> "None", code |-> 0, resp |-> NoResp, what |-> "none"]

\* The method returns res after printing the diagnostics d.
Finish(res, d) ==
  /\ fpc' = "done"
  /\ rpc' = "idle"
  /\ result' = res
  /\ diag' = diag \cup d
  /\ UNCHANGED <<rq, ret, sent, orig, cnt>>

\* An exception leaves the method.
Raise(what) == Finish([kind |-> "raise", code |-> 0, resp |-> NoResp, what |-> what], {})

\* A submit test that takes 200 for an accepted job too.
Accepted_Also200(status) == status \in {200, 202}

\* if status == 202:
Accepted(status) == status = 202

\* A polling loop that sleeps twice for each PENDING report.
PollSleep_Twice(j) == [j EXCEPT !.sleeps = @ + 2, !.slept = @ + 2 * POLL_SLEEP]

\* A polling loop that does not sleep.
PollSleep_Skipped(j) == j

\* time.sleep(60) in the polling loop
PollSleep(j) == [j EXCEPT !.sleeps = @ + 1, !.slept = @ + POLL_SLEEP]

\* The start of a public method: nothing done, nothing printed yet.
Begin(name) ==
  /\ Idle
  /\ op' = name
  /\ args' = NoArgs
  /\ result' = NoResult
  /\ diag' = {}
  /\ job' = ZeroJob
  /\ UNCHANGED <<facVars, sessVars>>

\* BolRetailerAPI.request_all_offers: the submit
request_all_offers ==
  /\ family = "Retailer"
  /\ Begin("request_all_offers")
  /\ fpc' = "submit"
  /\ post(Url("retailer/offers/export", 0), "format=CSV", NoneArg)

\* ... the submit's answer: the first status check, or the else branch
request_all_offers_submitted ==
  /\ op = "request_all_offers" /\ fpc = "submit" /\ rpc = "return"
  /\ LET status == ret[1]
         response == ret[2]
     IN IF Accepted(status)
        THEN IF response.id = 0
             THEN /\ Raise("KeyError")
                  /\ job' = [job EXCEPT !.subCode = status]
             ELSE /\ job' = [job EXCEPT !.subCode = status, !.pid = response.id, !.checks = @ + 1]
                  /\ get(Url(StatusPath, response.id), "none", NoneArg)
                  /\ fpc' = "check"
                  /\ UNCHANGED <<result, diag>>
        ELSE /\ job' = [job EXCEPT !.subCode = status]
             /\ Finish([kind |-> "response", code |-> status, resp |-> response, what |-> "none"],
                       {"failed to request offer export"})
  /\ UNCHANGED <<facVars, sessVars, op, args>>

\* ... the polling loop and the branch on the job's final status
request_all_offers_checked ==
  /\ op = "request_all_offers" /\ fpc = "check" /\ rpc = "return"
  /\ LET process == ret[2]
     IN IF process.job = "absent"
        THEN /\ Raise("KeyError")
             /\ job' = [job EXCEPT !.last = "absent"]
        ELSE IF process.job = "PENDING"
        THEN /\ job' = [PollSleep(job) EXCEPT !.pending = @ + 1, !.checks = @ + 1,
                                              !.last = "PENDING"]
             /\ get(Url(StatusPath, job.pid), "none", NoneArg)
             /\ UNCHANGED <<fpc, result, diag>>
        ELSE IF process.job = "SUCCESS"
        THEN /\ job' = [job EXCEPT !.fetches = @ + 1, !.last = "SUCCESS"]
             /\ get(Url("retailer/offers/export/{report_id}", process.id), "none",
                    OwnArg(CsvHeaders))
             /\ fpc' = "fetch"
             /\ UNCHANGED <<result, diag>>
        ELSE /\ job' = [job EXCEPT !.last = process.job]
             /\ Finish(None, {"failed to process offer export"})
  /\ UNCHANGED <<facVars, sessVars, op, args>>

\* ... the result fetch's answer
request_all_offers_fetched ==
  /\ op = "request_all_offers" /\ fpc = "fetch" /\ rpc = "return"
  /\ LET status == ret[1]
         response == ret[2]
     IN IF status = 200
        THEN Finish([kind |-> "StringIO", code |-> status, resp |-> response, what |-> "none"], {})
        ELSE Finish(None, {"failed to retrieve offer export"})
  /\ UNCHANGED <<facVars, sessVars, op, args, job>>

\* BolAdvertisingAPI.request_bulk_report: the submit
request_bulk_report ==
  /\ family = "Advertising"
  /\ Begin("request_bulk_report")
  /\ fpc' = "submit"
  /\ post(Url("advertiser/sponsored-products/reporting/bulk-reports?entity-type&start-date&end-date", 0),
          "none", NoneArg)

request_bulk_report_submitted ==
  /\ op = "request_bulk_report" /\ fpc = "submit" /\ rpc = "return"
  /\ LET status == ret[1]
         response == ret[2]
     IN IF Accepted(status)
        THEN IF response.id = 0
             THEN /\ Raise("KeyError")
                  /\ job' = [job EXCEPT !.subCode = status]
             ELSE /\ job' = [job EXCEPT !.subCode = status, !.pid = response.id, !.checks = @ + 1]
                  /\ get(Url(StatusPath, response.id), "none", NoneArg)
                  /\ fpc' = "check"
                  /\ UNCHANGED <<result, diag>>
        ELSE /\ job' = [job EXCEPT !.subCode = status]
             /\ Finish(None, {"failed to request campaign performance export"})
  /\ UNCHANGED <<facVars, sessVars, op, args>>

\* ... the polling loop; a final status other than SUCCESS falls out of the
\* method, there is no else branch
request_bulk_report_checked ==
  /\ op = "request_bulk_report" /\ fpc = "check" /\ rpc = "return"
  /\ LET process == ret[2]
     IN IF process.job = "absent"
        THEN /\ Raise("KeyError")
             /\ job' = [job EXCEPT !.last = "absent"]
        ELSE IF process.job = "PENDING"
        THEN /\ job' = [PollSleep(job) EXCEPT !.pending = @ + 1, !.checks = @ + 1,
                                              !.last = "PENDING"]
             /\ get(Url(StatusPath, job.pid), "none", NoneArg)
             /\ UNCHANGED <<fpc, result, diag>>
        ELSE IF process.job = "SUCCESS"
        THEN /\ job' = [job EXCEPT !.fetches = @ + 1, !.last = "SUCCESS"]
             /\ get(Url("advertiser/sponsored-products/reporting/bulk-reports/{report_id}", process.id),
                    "none", NoneArg)
             /\ fpc' = "fetch"
             /\ UNCHANGED <<result, diag>>
        ELSE /\ job' = [job EXCEPT !.last = process.job]
             /\ Finish(None, {})
  /\ UNCHANGED <<facVars, sessVars, op, args>>

\* ... the report resource's answer: on 200 its 'url' is read
request_bulk_report_fetched ==
  /\ op = "request_bulk_report" /\ fpc = "fetch" /\ rpc = "return"
  /\ LET status == ret[1]
         response == ret[2]
     IN IF status = 200
        THEN IF response.id = 0
             THEN Raise("KeyError") /\ UNCHANGED job
             ELSE /\ job' = [job EXCEPT !.dlurl = response.id]
                  /\ fpc' = "download"
                  /\ rpc' = "idle"
                  /\ UNCHANGED <<result, diag, rq, ret, sent, orig, cnt>>
        ELSE Finish(None, {"failed to retrieve campaign performance"}) /\ UNCHANGED job
  /\ UNCHANGED <<facVars, sessVars, op, args>>

\* A secondary fetch that is given the session's headers.
SecondaryHeaders_Session == headers

\* requests.get(download_url) and requests.get(img_url, stream=True): the
\* headers argument is not passed, no header of the session is sent
SecondaryHeaders == EmptyDict

\* ... report = requests.get(download_url), decoded whatever its status
request_bulk_report_downloaded ==
  /\ op = "request_bulk_report" /\ fpc = "download"
  /\ \E code \in Statuses :
       /\ job' = [job EXCEPT !.downloads = @ + 1, !.dlcode = code, !.dlhdr = SecondaryHeaders]
       /\ Finish([kind |-> "DataFrame", code |-> code, resp |-> NoResp, what |-> "none"], {})
  /\ UNCHANGED <<facVars, sessVars, op, args>>

\* BolAdvertisingAPIv10.request_campaigns_report: the submit
request_campaigns_report ==
  /\ family = "AdvertisingV10"
  /\ Begin("request_campaigns_report")
  /\ fpc' = "submit"
  /\ post(Url("advertiser/sponsored-products/campaign-performance/reports?start-date&end-date", 0),
          "none", NoneArg)

request_campaigns_report_submitted ==
  /\ op = "request_campaigns_report" /\ fpc = "submit" /\ rpc = "return"
  /\ LET status == ret[1]
         response == ret[2]
     IN IF Accepted(status)
        THEN IF response.id = 0
             THEN /\ Raise("KeyError")
                  /\ job' = [job EXCEPT !.subCode = status]
             ELSE /\ job' = [job EXCEPT !.subCode = status, !.pid = response.id, !.checks = @ + 1]
                  /\ get(Url(StatusPath, response.id), "none", NoneArg)
                  /\ fpc' = "check"
                  /\ UNCHANGED <<result, diag>>
        ELSE /\ job' = [job EXCEPT !.subCode = status]
             /\ Finish(None, {"failed to request campaign performance export"})
  /\ UNCHANGED <<facVars, sessVars, op, args>>

\* ... the polling loop; again no else branch for a failed job
request_campaigns_report_checked ==
  /\ op = "request_campaigns_report" /\ fpc = "check" /\ rpc = "return"
  /\ LET process == ret[2]
     IN IF process.job = "absent"
        THEN /\ Raise("KeyError")
             /\ job' = [job EXCEPT !.last = "absent"]
        ELSE IF process.job = "PENDING"
        THEN /\ job' = [PollSleep(job) EXCEPT !.pending = @ + 1, !.checks = @ + 1,
                                              !.last = "PENDING"]
             /\ get(Url(StatusPath, job.pid), "none", NoneArg)
             /\ UNCHANGED <<fpc, result, diag>>
        ELSE IF process.job = "SUCCESS"
        THEN /\ job' = [job EXCEPT !.fetches = @ + 1, !.last = "SUCCESS"]
             /\ get(Url("advertiser/sponsored-products/campaign-performance/reports/{report_id}", process.id),
                    "none", NoneArg)
             /\ fpc' = "fetch"
             /\ UNCHANGED <<result, diag>>
        ELSE /\ job' = [job EXCEPT !.last = process.job]
             /\ Finish(None, {})
  /\ UNCHANGED <<facVars, sessVars, op, args>>

request_campaigns_report_fetched ==
  /\ op = "request_campaigns_report" /\ fpc = "fetch" /\ rpc = "return"
  /\ LET status == ret[1]
         response == ret[2]
     IN IF status = 200
        THEN IF response.id = 0
             THEN Raise("KeyError") /\ UNCHANGED job
             ELSE /\ job' = [job EXCEPT !.dlurl = response.id]
                  /\ fpc' = "download"
                  /\ rpc' = "idle"
                  /\ UNCHANGED <<result, diag, rq, ret, sent, orig, cnt>>
        ELSE Finish(None, {"failed to retrieve campaign performance"}) /\ UNCHANGED job
  /\ UNCHANGED <<facVars, sessVars, op, args>>

request_campaigns_report_downloaded ==
  /\ op = "request_campaigns_report" /\ fpc = "download"
  /\ \E code \in Statuses :
       /\ job' = [job EXCEPT !.downloads = @ + 1, !.dlcode = code, !.dlhdr = SecondaryHeaders]
       /\ Finish([kind |-> "DataFrame", code |-> code, resp |-> NoResp, what |-> "none"], {})
  /\ UNCHANGED <<facVars, sessVars, op, args>>

\* BolRetailerAPI.request_product_image: the GET of the assets resource
request_product_image ==
  /\ family = "Retailer"
  /\ Begin("request_product_image")
  /\ fpc' = "fetch"
  /\ get(Url("retailer/products/{ean}/assets?usage=PRIMARY", 0), "none", NoneArg)

\* ... its answer: on 200 the first variant's 'url' is read
request_product_image_fetched ==
  /\ op = "request_product_image" /\ fpc = "fetch" /\ rpc = "return"
  /\ LET status == ret[1]
         response == ret[2]
     IN IF status = 200
        THEN IF response.id = 0
             THEN Raise("KeyError") /\ UNCHANGED job
             ELSE /\ job' = [job EXCEPT !.dlurl = response.id]
                  /\ fpc' = "download"
                  /\ rpc' = "idle"
                  /\ UNCHANGED <<result, diag, rq, ret, sent, orig, cnt>>
        ELSE Finish(None, {"failed to retrieve product's primary image"}) /\ UNCHANGED job
  /\ UNCHANGED <<facVars, sessVars, op, args>>

\* ... Image.open(requests.get(img_url, stream=True).raw): the status is
\* not looked at; a body that is no image makes Image.open raise
request_product_image_downloaded ==
  /\ op = "request_product_image" /\ fpc = "download"
  /\ \E code \in Statuses :
       /\ job' = [job EXCEPT !.downloads = @ + 1, !.dlcode = code, !.dlhdr = SecondaryHeaders]
       /\ IF code = 200
          THEN Finish([kind |-> "Image", code |-> code, resp |-> NoResp, what |-> "none"], {})
          ELSE Raise("UnidentifiedImageError")
  /\ UNCHANGED <<facVars, sessVars, op, args>>

\* ------------------------------------------------------------ construction
NoCall == [m |-> "none"]
Out(kind, value, col, dates, values, items, what, printed) ==
  [kind |-> kind, value |-> value, col |-> col, dates |-> dates, values |-> values,
   items |-> items, what |-> what, printed |-> printed]
NoOut == Out("none", 0, "", <<>>, <<>>, {}, "none", FALSE)

\* A client after its constructor returned: the subclass's headers, and the
\* session get_access_token left, for each answer of the token endpoint
\* with which the constructor returns.
Constructed(fam, a) ==
  LET s == get_access_token(BaseHeaders(fam), "None", a, 1)
  IN /\ s.raised = "no"
     /\ family = fam
     /\ headers = s.headers
     /\ valid = s.valid
     /\ issued = IF Issues(a) THEN 1 ELSE 0
     /\ tokAns = [status |-> a.status, body |-> a.body, token |-> 1, raised |-> s.raised]
     /\ op = "ctor" /\ fpc = "done" /\ args = NoArgs
     /\ result = NoResult
     /\ diag = IF s.printed THEN {"failed to retrieve access token"} ELSE {}
     /\ rq = NoArgs /\ rpc = "idle" /\ ret = NoRet
     /\ sent = NoReq /\ orig = NoReq
     /\ cnt = ZeroCnt /\ job = ZeroJob

Init ==
  /\ \E fam \in Families, a \in TokenAnswers : Constructed(fam, a)
  /\ call = NoCall
  /\ out = NoOut

Next ==
  \/ CallRequest
  \/ RequestSend
  \/ Reauthenticate
  \/ Backoff
  \/ ReturnRequest
  \/ request_all_offers
  \/ request_all_offers_submitted
  \/ request_all_offers_checked
  \/ request_all_offers_fetched
  \/ request_bulk_report
  \/ request_bulk_report_submitted
  \/ request_bulk_report_checked
  \/ request_bulk_report_fetched
  \/ request_bulk_report_downloaded
  \/ request_campaigns_report
  \/ request_campaigns_report_submitted
  \/ request_campaigns_report_checked
  \/ request_campaigns_report_fetched
  \/ request_campaigns_report_downloaded
  \/ request_product_image
  \/ request_product_image_fetched
  \/ request_product_image_downloaded

Spec == Init /\ [][Next]_vars

\* The steps a call takes once it was made: the interpreter runs the method
\* on, the service and the token endpoint answer each request, a sleep ends.
Progress ==
  \/ RequestSend
  \/ Reauthenticate
  \/ Backoff
  \/ ReturnRequest
  \/ request_all_offers_submitted
  \/ request_all_offers_checked
  \/ request_all_offers_fetched
  \/ request_bulk_report_submitted
  \/ request_bulk_report_checked
  \/ request_bulk_report_fetched
  \/ request_bulk_report_downloaded
  \/ request_campaigns_report_submitted
  \/ request_campaigns_report_checked
  \/ request_campaigns_report_fetched
  \/ request_campaigns_report_downloaded
  \/ request_product_image_fetched
  \/ request_product_image_downloaded

\* The program under a service that answers every request and, by the
\* bounds, stops answering 401 and 429 and reporting PENDING in the end.
\* No fairness is put on the user's making a call.
SpecLive == Init /\ [][Next]_vars /\ WF_vars(Progress)

\* ------------------------------------------------------ reshaping methods
\* The methods that make one GET and reshape its JSON body.  call holds the
\* arguments and the final answer of the GET (its status and its body).
mainVars == <<family, headers, valid, issued, op, fpc, args, result, diag,
              rq, rpc, ret, sent, orig, cnt, tokAns, job>>

InsightPeriods == {"DAY", "WEEK", "MONTH"}
InsightNames == {"PRODUCT_VISITS", "BUY_BOX_PERCENTAGE"}
Countries == {"NL", "BE"}

\* The period object of the i-th period the service returns: the keys the
\* requested granularity has, 0 for a key the object does not hold.
DateOf(period, i) ==
  CASE period = "DAY"  -> [day |-> i, week |-> 0, month |-> 3, year |-> 2024]
    [] period = "WEEK" -> [day |-> 0, week |-> i, month |-> 0, year |-> 2024]
    [] OTHER           -> [day |-> 0, week |-> 0, month |-> i, year |-> 2024]
ValueOf(i, c) == 10 * i + (IF c = "NL" THEN 1 ELSE 2)
CountryLists == {<<"NL", "BE">>, <<"BE", "NL">>, <<"NL">>}
\* response.json()['offerInsights'][0]['periods'] with n periods
InsightsBody(period, n, cl) ==
  [i \in 1..n |->
     [period |-> DateOf(period, i),
      countries |-> [k \in 1..Len(cl) |-> [countryCode |-> cl[k], value |-> ValueOf(i, cl[k])]]]]

\* The local variable date_str before its first assignment.
Unbound == <<>>

\* Lines 355-360: the f-strings, a label being its fields joined by "-";
\* no branch assigns date_str for a period other than DAY, MONTH and YEAR.
DateStr(period, date, date_str) ==
  CASE period = "DAY"   -> <<date.day, "-", date.month, "-", date.year>>
    [] period = "MONTH" -> <<date.month, "-", date.year>>
    [] period = "YEAR"  -> <<date.year>>
    [] OTHER            -> date_str

\* Lines 364-366: the values of the entries whose countryCode is country
Matching(countries, country) ==
  LET sel == SelectSeq(countries, LAMBDA c : c.countryCode = country)
  IN [k \in 1..Len(sel) |-> sel[k].value]

\* Lines 351-366: the loop over the periods, from the i-th on
RECURSIVE InsightsLoop(_, _, _, _, _, _, _)
InsightsLoop(periods, i, period, country, date_str, dates, values) ==
  IF i > Len(periods)
  THEN [raised |-> "no", dates |-> dates, values |-> values]
  ELSE LET date == periods[i].period
           countries == periods[i].countries
           ds == DateStr(period, date, date_str)
       IN IF ds = Unbound
          THEN \* dates.append(date_str) reads a local that was never assigned
               [raised |-> "UnboundLocalError", dates |-> dates, values |-> values]
          ELSE InsightsLoop(periods, i + 1, period, country, ds,
                            Append(dates, ds), values \o Matching(countries, country))

\* request_offer_insights after its GET returned status and a body whose
\* periods list is periods
OfferInsights(name, period, no_periods, country, status, periods) ==
  IF status = 200
  THEN LET r == InsightsLoop(periods, 1, period, country, Unbound, <<>>, <<>>)
       IN IF r.raised # "no"
          THEN Out("raise", 0, "", <<>>, <<>>, {}, r.raised, FALSE)
          ELSE IF no_periods = 1
               THEN IF r.values = <<>>
                    THEN Out("raise", 0, "", <<>>, <<>>, {}, "IndexError", FALSE)
                    ELSE Out("scalar", r.values[1], "", <<>>, <<>>, {}, "none", FALSE)
               ELSE Out("table", 0, IF name = "PRODUCT_VISITS" THEN "Visits" ELSE "Buy-Box %",
                        r.dates, r.values, {}, "none", FALSE)
  ELSE Out("None", 0, "", <<>>, <<>>, {}, "none", TRUE)

\* A Python dict is the set of its (key, value) items; keys are strings or
\* integers, values integers or lists.
StrKey(str) == [t |-> "str", s |-> str, n |-> 0]
IntKey(i) == [t |-> "int", s |-> "", n |-> i]
IntVal(i) == [t |-> "int", n |-> i, list |-> <<>>]
ListVal(l) == [t |-> "list", n |-> 0, list |-> l]

\* The entries a ratings list is made of, and the lists
RatingEntries == {[rating |-> r, count |-> c] : r \in {1, 5}, c \in {1, 3}}
RatingLists == UNION {[1..n -> RatingEntries] : n \in 0..MaxRatings}

\* request_product_ratings after its GET returned status and a body that
\* holds (has) the list ratings under 'ratings', or does not hold the key
ProductRatings(status, has, ratings) ==
  IF status = 200
  THEN IF ~has
       THEN Out("raise", 0, "", <<>>, <<>>, {}, "KeyError", FALSE)
       ELSE Out("dict", 0, "", <<>>, <<>>,
                { <<StrKey("Rating"), ListVal([i \in 1..Len(ratings) |-> ratings[i].rating])>>,
                  <<StrKey("Count"), ListVal([i \in 1..Len(ratings) |-> ratings[i].count])>> },
                "none", FALSE)
  ELSE Out("dict", 0, "", <<>>, <<>>,
           { <<StrKey("Rating"), ListVal(<<>>)>>, <<StrKey("Count"), ListVal(<<>>)>> },
           "none", FALSE)

\* The calls the model makes, with the final answers the service gives.
InsightsCalls ==
  { [m |-> "request_offer_insights", status |-> st, name |-> nm, period |-> p,
     no_periods |-> np, country |-> c, periods |-> InsightsBody(p, n, cl)] :
      st \in {200, 404}, nm \in InsightNames, p \in InsightPeriods, np \in 1..MaxPeriods,
      c \in Countries, n \in 0..MaxPeriods, cl \in CountryLists }
RatingsCalls ==
  { [m |-> "request_product_ratings", status |-> st, has |-> h, ratings |-> l] :
      st \in {200, 404}, h \in BOOLEAN, l \in RatingLists }

request_offer_insights ==
  /\ call.m = "request_offer_insights"
  /\ out = NoOut
  /\ out' = OfferInsights(call.name, call.period, call.no_periods, call.country,
                          call.status, call.periods)
  /\ UNCHANGED <<call, mainVars>>

request_product_ratings ==
  /\ call.m = "request_product_ratings"
  /\ out = NoOut
  /\ out' = ProductRatings(call.status, call.has, call.ratings)
  /\ UNCHANGED <<call, mainVars>>

\* An invoice spreadsheet is the sequence of its rows, a row being told by
\* its index in the sheet (0 for the first): rows 0..5 are the preamble,
\* row 6 names the columns, the rows after it are the data.
Sheet(n) == [i \in 1..n |-> i - 1]
\* The sheets the service sends: the layout with 0..MaxDataRows data rows,
\* and shorter sheets.
Sheets == {Sheet(n) : n \in 0..(HEADER_ROW + 1 + MaxDataRows)}

\* pd.read_excel with its default header=0: the sheet's first row becomes
\* the column names, the rows after it are the table's rows 0, 1, ...
read_excel(sheet) ==
  IF sheet = <<>>
  THEN [columns |-> -1, rows |-> <<>>]
  ELSE [columns |-> Head(sheet), rows |-> Tail(sheet)]

\* df.iloc[k]: the k-th row of the table, <<>> where it raises IndexError
iloc(df, k) == IF k + 1 <= Len(df.rows) THEN <<df.rows[k + 1]>> ELSE <<>>

\* df.drop(np.arange(0, n)) and reset_index: the table without rows 0..n-1
drop(df, n) == [df EXCEPT !.rows = SubSeq(df.rows, n + 1, Len(df.rows))]

\* Lines 170-177 of request_invoice_specification after its GET returned
\* status and a body that decodes to sheet
InvoiceSpecification(status, sheet) ==
  IF status = 200
  THEN LET df == read_excel(sheet)
           header == iloc(df, HEADER_ROW)
       IN IF header = <<>>
          THEN Out("raise", 0, "", <<>>, <<>>, {}, "IndexError", FALSE)
          ELSE Out("DataFrame", header[1], "", <<>>, drop(df, DROPPED_ROWS).rows, {}, "none", FALSE)
  ELSE Out("None", 0, "", <<>>, <<>>, {}, "none", TRUE)

InvoiceCalls ==
  { [m |-> "request_invoice_specification", status |-> st, sheet |-> sh] :
      st \in {200, 404}, sh \in Sheets }

request_invoice_specification ==
  /\ call.m = "request_invoice_specification"
  /\ out = NoOut
  /\ out' = InvoiceSpecification(call.status, call.sheet)
  /\ UNCHANGED <<call, mainVars>>

InitReshape ==
  /\ Constructed("Retailer", [status |-> 200, body |-> "token"])
  /\ call \in InsightsCalls \cup RatingsCalls \cup InvoiceCalls
  /\ out = NoOut

NextReshape ==
  \/ request_offer_insights
  \/ request_product_ratings
  \/ request_invoice_specification

SpecReshape == InitReshape /\ [][NextReshape]_vars

\* ------------------------------------ the asynchronous protocol, compared
\* The three asynchronous methods as functions of the final answers the
\* service gives (the answers request returns, 401s and 429s being dealt
\* with inside request): the submit's status, the number of PENDING
\* reports, the report that ends the polling, the result fetch's status.
\* A run is the steps taken and what the caller is told: what is returned
\* ("value", "None" or "response") and which diagnostic is printed, named by
\* the step that failed ("request", "process", "retrieve" or "none").
ProtocolAnswers ==
  { [m |-> "protocol", submit |-> sc, pending |-> n, final |-> f, fetch |-> fc] :
      sc \in {202, 200, 404}, n \in 0..MaxPending, f \in {"SUCCESS", "FAILURE"},
      fc \in {200, 404} }
Run(steps, returns, printed, downloads) ==
  [steps |-> steps, returns |-> returns, printed |-> printed, downloads |-> downloads]
NoRun == Run(<<>>, "none", "none", 0)

\* Lines 215-219 (462-466, 556-560): the first status check, then a sleep
\* and another check for each PENDING report
RECURSIVE Polling(_)
Polling(n) == IF n = 0 THEN <<"check">> ELSE Polling(n - 1) \o <<"sleep", "check">>

\* request_all_offers, lines 209-237
AllOffersRun(a) ==
  IF a.submit = 202
  THEN LET polled == <<"submit">> \o Polling(a.pending)
       IN IF a.final = "SUCCESS"
          THEN IF a.fetch = 200
               THEN Run(polled \o <<"fetch">>, "value", "none", 0)
               ELSE Run(polled \o <<"fetch">>, "None", "retrieve", 0)
          ELSE Run(polled, "None", "process", 0)
  ELSE Run(<<"submit">>, "response", "request", 0)

\* request_bulk_report, lines 460-483
BulkReportRun(a) ==
  IF a.submit = 202
  THEN LET polled == <<"submit">> \o Polling(a.pending)
       IN IF a.final = "SUCCESS"
          THEN IF a.fetch = 200
               THEN Run(polled \o <<"fetch">>, "value", "none", 1)
               ELSE Run(polled \o <<"fetch">>, "None", "retrieve", 0)
          ELSE Run(polled, "None", "none", 0)
  ELSE Run(<<"submit">>, "None", "request", 0)

\* request_campaigns_report, lines 554-576
CampaignsReportRun(a) ==
  IF a.submit = 202
  THEN LET polled == <<"submit">> \o Polling(a.pending)
       IN IF a.final = "SUCCESS"
          THEN IF a.fetch = 200
               THEN Run(polled \o <<"fetch">>, "value", "none", 1)
               ELSE Run(polled \o <<"fetch">>, "None", "retrieve", 0)
          ELSE Run(polled, "None", "none", 0)
  ELSE Run(<<"submit">>, "None", "request", 0)

RunAllOffers ==
  /\ out["request_all_offers"] = NoRun
  /\ out' = [out EXCEPT !["request_all_offers"] = AllOffersRun(call)]
  /\ UNCHANGED <<call, mainVars>>

RunBulkReport ==
  /\ out["request_bulk_report"] = NoRun
  /\ out' = [out EXCEPT !["request_bulk_report"] = BulkReportRun(call)]
  /\ UNCHANGED <<call, mainVars>>

RunCampaignsReport ==
  /\ out["request_campaigns_report"] = NoRun
  /\ out' = [out EXCEPT !["request_campaigns_report"] = CampaignsReportRun(call)]
  /\ UNCHANGED <<call, mainVars>>

\* The same answers are given to one call of each method; the session plays
\* no part in the comparison.
InitProtocol ==
  /\ Constructed("Retailer", [status |-> 200, body |-> "token"])
  /\ call \in ProtocolAnswers
  /\ out = [o \in {"request_all_offers", "request_bulk_report", "request_campaigns_report"} |-> NoRun]

NextProtocol ==
  \/ RunAllOffers
  \/ RunBulkReport
  \/ RunCampaignsReport

SpecProtocol == InitProtocol /\ [][NextProtocol]_vars

\* ------------------------------------------------ two concurrent callers
\* Two threads call get on one client instance.  self.headers, self.valid
\* and the token endpoint are shared; each caller has its own activation of
\* request and of get_access_token.  call[c] is caller c's activation: its
\* position, the arguments of request, the token its dispatched request
\* carries, the 401s answered to the call and the get_access_token calls it
\* made, the token endpoint's answer it holds.  out is the service's side:
\* the tokens that expired, and for each token the callers that
\* re-authenticated because a request carrying it was answered 401.
Callers == {1, 2}
twoFrame == <<family, op, fpc, args, result, diag, rq, rpc, ret, sent, orig, cnt, tokAns, job>>

NoTok == [status |-> 0, body |-> "none", token |-> 0]
IdleCaller ==
  [pc |-> "idle", method |-> "none", url |-> Url("", 0), data |-> "none", hdr |-> NoneArg,
   carried |-> Absent, status |-> 0, n401 |-> 0, auths |-> 0, tok |-> NoTok]

\* The number of a bearer token, 0 for a request without Authorization.
TokenId(h) == IF h = Absent THEN 0 ELSE h[2]

\* The service accepts a bearer token it has issued until the token expires.
Rejected(h) == h = Absent \/ TokenId(h) \in out.expired

\* A status test that skips get_access_token when the session no longer
\* holds the token the rejected request carried.
Reauthenticates_OnlyIfStillStored(carried, stored) == carried = stored

\* Lines 112-115: every 401 leads to self.get_access_token(), whatever
\* self.headers hold by then
Reauthenticates(carried, stored) == TRUE

\* A caller calls self.get(endpoint_url)
ConcurrentCall(c) ==
  /\ call[c].pc \in {"idle", "done", "raised"}
  /\ call' = [call EXCEPT ![c] = [IdleCaller EXCEPT !.pc = "send", !.method = "GET",
                                                    !.url = Url("retailer/offers", 1)]]
  /\ UNCHANGED <<headers, valid, issued, out, twoFrame>>

\* Lines 93-108: the merge reads self.headers and the request is dispatched
ConcurrentSend(c) ==
  /\ call[c].pc = "send"
  /\ LET local == LocalHeaders(call[c].hdr)
     IN call' = [call EXCEPT ![c] = [RetryArgs(call[c], local) EXCEPT
                                       !.pc = "await",
                                       !.carried = Deref(local)["Authorization"]]]
  /\ UNCHANGED <<headers, valid, issued, out, twoFrame>>

\* Lines 111-123: the service's answer arrives and the status is tested
ConcurrentAnswer(c) ==
  /\ call[c].pc = "await"
  /\ \E code \in (IF Rejected(call[c].carried) THEN {401} ELSE {200, 404}) :
       /\ code = 401 => call[c].n401 < Max401
       /\ IF Branch(code) = "reauth"
          THEN IF Reauthenticates(call[c].carried, headers["Authorization"])
               THEN /\ call' = [call EXCEPT ![c].pc = "reauth", ![c].n401 = @ + 1,
                                            ![c].status = code]
                    /\ out' = [out EXCEPT !.reauthBy[TokenId(call[c].carried)] = @ \cup {c}]
               ELSE /\ call' = [call EXCEPT ![c].pc = "send", ![c].n401 = @ + 1,
                                            ![c].status = code]
                    /\ UNCHANGED out
          ELSE /\ call' = [call EXCEPT ![c].pc = "done", ![c].status = code]
               /\ UNCHANGED out
  /\ UNCHANGED <<headers, valid, issued, twoFrame>>

\* Lines 52-54: requests.post to the token endpoint, request.json()
TokenPost(c) ==
  /\ call[c].pc = "reauth"
  /\ \E a \in TokenAnswers :
       /\ Issues(a) => issued < MaxTokens
       /\ issued' = IF Issues(a) THEN issued + 1 ELSE issued
       /\ call' = [call EXCEPT
                     ![c].auths = @ + 1,
                     ![c].tok = [status |-> a.status, body |-> a.body, token |-> issued + 1],
                     ![c].pc = IF a.body = "text" THEN "raised" ELSE "token_status"]
  /\ UNCHANGED <<headers, valid, out, twoFrame>>

\* Lines 56-57 and 63-66: self.valid = True, or the print and self.valid = False
TokenStatus(c) ==
  /\ call[c].pc = "token_status"
  /\ IF call[c].tok.status = 200
     THEN /\ valid' = "True"
          /\ call' = [call EXCEPT ![c].pc = IF call[c].tok.body = "token" THEN "token_store"
                                            ELSE "raised"]
     ELSE /\ valid' = "False"
          /\ call' = [call EXCEPT ![c].pc = "send"]
  /\ UNCHANGED <<headers, issued, out, twoFrame>>

\* Lines 58-61: self.headers.update({'Authorization': bearer_str}), return
TokenStore(c) ==
  /\ call[c].pc = "token_store"
  /\ headers' = DictUpdate(headers, [EmptyDict EXCEPT !["Authorization"] = Bearer(call[c].tok.token)])
  /\ call' = [call EXCEPT ![c].pc = "send"]
  /\ UNCHANGED <<valid, issued, out, twoFrame>>

\* The token the session holds expires at the service.
TokenExpires ==
  /\ out.expiries < MaxExpiries
  /\ ~Rejected(headers["Authorization"])
  /\ out' = [out EXCEPT !.expired = @ \cup {TokenId(headers["Authorization"])},
                        !.expiries = @ + 1]
  /\ UNCHANGED <<headers, valid, issued, call, twoFrame>>

InitTwo ==
  /\ \E a \in TokenAnswers : Constructed("Retailer", a)
  /\ call = [c \in Callers |-> IdleCaller]
  /\ out = [expired |-> {}, expiries |-> 0, reauthBy |-> [t \in 0..MaxTokens |-> {}]]

NextTwo ==
  \/ \E c \in Callers : ConcurrentCall(c)
  \/ \E c \in Callers : ConcurrentSend(c)
  \/ \E c \in Callers : ConcurrentAnswer(c)
  \/ \E c \in Callers : TokenPost(c)
  \/ \E c \in Callers : TokenStatus(c)
  \/ \E c \in Callers : TokenStore(c)
  \/ TokenExpires

SpecTwo == InitTwo /\ [][NextTwo]_vars

\* ------------------------------------------------------------------ claims
AsyncOps == {"request_all_offers", "request_bulk_report", "request_campaigns_report"}

\* C1: a call of request that the service answered 401 exactly once and
\* then a status other than 401 and 429 called get_access_token exactly
\* once, sent two requests, and returns the status and the response the
\* service would have given to the call's first request: the response to a
\* request of the same content, returned unchanged.
C1_ReauthOnceSameResult ==
  (rpc = "return" /\ cnt.n401 = 1 /\ cnt.n429 = 0) =>
    /\ cnt.auth = 1
    /\ cnt.sent = 2
    /\ ret[1] \notin {401, 429}
    /\ ret[2] = Respond(orig, ret[1], [job |-> ret[2].job, id |-> ret[2].id])
    /\ op = "request" =>
         /\ orig.method = args.method
         /\ orig.url = args.url
         /\ orig.data = args.data

\* A call with data and header overrides, answered 401 once, returned after
\* a re-authentication that obtained a token.
C1_Witness ==
  /\ op = "request" /\ rpc = "return"
  /\ cnt.n401 = 1 /\ cnt.n429 = 0
  /\ args.hdr.ref = "own" /\ args.data # "none"
  /\ tokAns.status = 200 /\ tokAns.body = "token"
  /\ ret[1] = 200

\* C2 as stated: a call does not go on re-issuing a request through 401
\* after 401 while no re-authentication obtains a token; the client gives
\* up before the service stops answering 401.
C2_NoBlindRetryLoop == cnt.streak < Max401

\* C3: the 1550-second sleeps of a call are as many as the 429s answered to
\* it, the re-authentications as many as the 401s (none is caused by a
\* 429), the requests sent are one more than the 401s and 429s, ...
C3_Counts ==
  /\ cnt.sleeps = cnt.n429 - (IF rpc = "backoff" THEN 1 ELSE 0)
  /\ cnt.slept = cnt.sleeps * RATE_LIMIT_SLEEP
  /\ cnt.auth = cnt.n401 - (IF rpc = "reauth" THEN 1 ELSE 0)
  /\ rpc = "return" => cnt.sent = 1 + cnt.n401 + cnt.n429
  /\ (cnt.n401 = 0 /\ cnt.sent > 0) => sent = orig
\* ... and the request sent after a 429 has the method, url, data and
\* headers of the request the 429 answered.
C3_Reissue == (rpc = "send" /\ cnt.last = 429) => sent' = sent
\* C3: for every number of 429s answered to a call of request, the client
\* sleeps 1550 seconds once per 429 and re-issues the same request once per
\* 429, and no 429 causes a re-authentication.
C3_BackoffRetries == [](C3_Counts) /\ [][C3_Reissue]_vars

\* A call with header overrides that was answered as many 429s as the
\* service gives, and returned.
C3_Witness ==
  /\ op = "request" /\ rpc = "return"
  /\ args.hdr.ref = "own" /\ Keys(args.hdr.val) # {}
  /\ cnt.n429 = Max429 /\ cnt.sleeps = Max429 /\ cnt.sent = Max429 + 1

\* C4: in the three asynchronous methods the 60-second sleeps are as many as
\* the PENDING reports; when SUCCESS is reported after n PENDING reports the
\* method has made n + 1 status checks (n + 1 HTTP requests when the service
\* answered no 401 or 429) and makes the result fetch once, for the entity
\* the report names; and no result fetch is made before SUCCESS is reported.
C4_PollThenFetch ==
  op \in AsyncOps =>
    /\ job.sleeps = job.pending
    /\ job.slept = job.pending * POLL_SLEEP
    /\ job.fetches <= 1
    /\ job.fetches = 1 <=> job.last = "SUCCESS"
    /\ fpc = "check" => job.checks = job.pending + 1
    /\ job.last = "SUCCESS" => job.checks = job.pending + 1
    /\ (job.last = "SUCCESS" /\ job.t401 = 0 /\ job.t429 = 0) => job.http = job.pending + 1
    /\ fpc = "fetch" => (rq.url.id = EntityId /\ rq.method = "GET")

\* PENDING, PENDING, SUCCESS: three status checks, two sleeps, one fetch.
C4_Witness ==
  /\ op = "request_campaigns_report" /\ fpc = "download"
  /\ job.pending = 2 /\ job.last = "SUCCESS"
  /\ job.checks = 3 /\ job.http = 3 /\ job.sleeps = 2 /\ job.fetches = 1

\* The diagnostics that tell the caller the job failed.
JobFailedDiags == {"failed to process offer export"}

\* C5 as stated: when a status check reports FAILURE the method makes no
\* result fetch and no further status check, and prints a diagnostic that
\* the job failed.
C5_JobFailureSurfaced ==
  (op \in AsyncOps /\ job.last = "FAILURE") =>
    /\ fpc = "done"
    /\ job.fetches = 0
    /\ job.checks = job.pending + 1
    /\ diag \cap JobFailedDiags # {}

\* The diagnostic each method prints when its submit is not accepted.
SubmitDiag(name) ==
  IF name = "request_all_offers"
  THEN "failed to request offer export"
  ELSE "failed to request campaign performance export"

\* C6: when the submit's final status is not 202 the method is over: no
\* status check, no result fetch and no download was made, the diagnostic
\* is printed, and the method returned (the response in request_all_offers,
\* None in the other two) instead of raising.
C6_SubmitRejected ==
  (op \in AsyncOps /\ job.subCode \notin {0, 202}) =>
    /\ fpc = "done"
    /\ job.accepted = 0
    /\ job.checks = 0 /\ job.http = 0
    /\ job.fetches = 0 /\ job.downloads = 0
    /\ SubmitDiag(op) \in diag
    /\ result.kind # "raise"
    /\ result = IF op = "request_all_offers"
                THEN [kind |-> "response", code |-> job.subCode, resp |-> ret[2], what |-> "none"]
                ELSE None

\* A submit answered 401 and then 404.
C6_Witness ==
  /\ op = "request_bulk_report" /\ fpc = "done"
  /\ job.subCode = 404 /\ job.t401 = 1
  /\ result = None

\* C7 as stated: after get_access_token, a 200 with an access_token leaves
\* 'Bearer <access_token>' in the Authorization header and valid True, and
\* any other status leaves valid False, the call having returned normally.
C7_TokenOutcome ==
  /\ (tokAns.status = 200 /\ tokAns.body = "token") =>
       (headers["Authorization"] = Bearer(tokAns.token) /\ valid = "True")
  /\ tokAns.status # 200 => (valid = "False" /\ tokAns.raised = "no")

\* C8 as stated: a session marked invalid holds no bearer token.
C8_NoTokenWhenInvalid == valid = "False" => headers["Authorization"] = Absent

\* The one period the service returned, when it returned one that holds one
\* entry for the country asked for.
OnePeriod ==
  /\ call.m = "request_offer_insights"
  /\ call.status = 200
  /\ Len(call.periods) = 1
  /\ Len(Matching(call.periods[1].countries, call.country)) = 1

\* C9 as stated: on a 200 the labels returned are day-month-year for DAY
\* and month-year for MONTH, and with no_periods = 1 the method returns the
\* single period's value for the country, whatever the period.
C9_InsightsShape ==
  (call.m = "request_offer_insights" /\ call.status = 200 /\ out # NoOut) =>
    /\ (out.kind = "table" /\ call.period = "DAY") =>
         /\ Len(out.dates) = Len(call.periods)
         /\ \A i \in 1..Len(out.dates) :
              out.dates[i] = <<call.periods[i].period.day, "-", call.periods[i].period.month,
                               "-", call.periods[i].period.year>>
    /\ (out.kind = "table" /\ call.period = "MONTH") =>
         /\ Len(out.dates) = Len(call.periods)
         /\ \A i \in 1..Len(out.dates) :
              out.dates[i] = <<call.periods[i].period.month, "-", call.periods[i].period.year>>
    /\ (call.no_periods = 1 /\ OnePeriod) =>
         /\ out.kind = "scalar"
         /\ out.value = Matching(call.periods[1].countries, call.country)[1]

\* C10 as stated: on a 200 whose ratings list is (r1, c1), ..., (rn, cn),
\* the ri differing from each other, the result maps each ri to ci and has
\* no other key.
C10_RatingsMapping ==
  ( /\ call.m = "request_product_ratings"
    /\ call.status = 200
    /\ call.has
    /\ call.ratings # <<>>
    /\ \A i, j \in 1..Len(call.ratings) :
         call.ratings[i].rating = call.ratings[j].rating => i = j
    /\ out # NoOut ) =>
    /\ out.kind = "dict"
    /\ out.items = { <<IntKey(call.ratings[i].rating), IntVal(call.ratings[i].count)>> :
                       i \in 1..Len(call.ratings) }

\* dict_data as line 421 builds it: both lists empty
EmptyRatings == { <<StrKey("Rating"), ListVal(<<>>)>>, <<StrKey("Count"), ListVal(<<>>)>> }

\* C11 as stated: when the status is not 200, and when it is 200 but the
\* body holds no 'ratings', request_product_ratings returns the structure
\* with both lists empty and does not raise.
C11_RatingsNeverRaise ==
  ( /\ call.m = "request_product_ratings"
    /\ out # NoOut
    /\ (call.status # 200 \/ ~call.has) ) =>
    /\ out.kind = "dict"
    /\ out.items = EmptyRatings

\* C12 as stated: on a 200 whose sheet has the preamble rows 0..5, the
\* header row 6 and then N data rows, the table returned has the cells of
\* row 6 as its column names and the N data rows, in order, as its rows.
C12_InvoiceTable ==
  ( /\ call.m = "request_invoice_specification"
    /\ call.status = 200
    /\ Len(call.sheet) >= HEADER_ROW + 1
    /\ out # NoOut ) =>
    /\ out.kind = "DataFrame"
    /\ out.value = call.sheet[HEADER_ROW + 1]
    /\ out.values = SubSeq(call.sheet, HEADER_ROW + 2, Len(call.sheet))

\* The diagnostics the asynchronous methods print for a failed endpoint.
FacadeDiags ==
  { "failed to request offer export", "failed to process offer export",
    "failed to retrieve offer export", "failed to request campaign performance export",
    "failed to retrieve campaign performance" }

\* The method ended on an endpoint's final status that is not the expected
\* one: a submit not answered 202, or a result fetch not answered 200.
FailedFinal ==
  /\ op \in AsyncOps /\ fpc = "done"
  /\ \/ job.subCode \notin {0, 202}
     \/ job.fetches = 1 /\ ret[1] \notin {0, 200}

\* C13 as stated: a method whose endpoint's final status is not the
\* expected one did not raise, printed a diagnostic and returned None.
C13_AbsentOnFailure ==
  FailedFinal =>
    /\ result.kind # "raise"
    /\ diag \cap FacadeDiags # {}
    /\ result = None

\* The dict an activation of request was given as its headers argument.
Overrides(h) ==
  CASE h.ref = "own"  -> h.val
    [] h.ref = "self" -> headers
    [] OTHER          -> EmptyDict

\* C14, the session: no override is ever stored in self.headers, whose
\* Accept and Content-Type stay those the constructor set.
C14_SessionBase ==
  /\ headers["Accept"] = BaseHeaders(family)["Accept"]
  /\ headers["Content-Type"] = BaseHeaders(family)["Content-Type"]
\* C14, each activation of request: the headers dispatched are self.headers
\* with every key of the overrides replacing the session's value, ...
C14_Merge ==
  (rpc = "send" /\ rpc' # "send") =>
     \A k \in HeaderNames :
        sent'.headers[k] = IF Overrides(rq.hdr)[k] # Absent THEN Overrides(rq.hdr)[k]
                           ELSE headers[k]
\* ... and the session is changed by get_access_token alone.
C14_Frame ==
  (headers' # headers \/ valid' # valid) => (rpc = "reauth" /\ cnt'.auth = cnt.auth + 1)
C15_ReissueCarriesNewToken ==
  [][ ( /\ rpc = "send" /\ rpc' # "send"
        /\ cnt.last = 401
        /\ tokAns.status = 200 /\ tokAns.body = "token" /\ tokAns.raised = "no" )
      => sent'.headers["Authorization"] = Bearer(tokAns.token) ]_vars

\* Every period the service returned holds one entry for the country asked for.
EveryPeriodHasCountry ==
  \A i \in 1..Len(call.periods) :
     Len(Matching(call.periods[i].countries, call.country)) = 1

\* C16 as stated: on a 200 with no_periods > 1 the method returns, for DAY,
\* WEEK and MONTH alike, a label and a value per period returned by the
\* service, in the service's order.
C16_ParallelSequences ==
  ( /\ call.m = "request_offer_insights"
    /\ call.status = 200
    /\ call.no_periods > 1
    /\ EveryPeriodHasCountry
    /\ out # NoOut ) =>
    /\ out.kind = "table"
    /\ Len(out.dates) = Len(call.periods)
    /\ Len(out.values) = Len(call.periods)
    /\ \A i \in 1..Len(call.periods) :
         /\ out.values[i] = Matching(call.periods[i].countries, call.country)[1]
         /\ out.dates[i] = DateStr(call.period, call.periods[i].period, Unbound)
         /\ out.dates[i] # Unbound

\* C17: when request returns, the pair it returns is the service's answer
\* to the last request it dispatched, unchanged; that answer is the only
\* one of the call whose status is neither 401 nor 429 (every earlier one
\* was a 401 or a 429); and get, post and put hand the same pair on.
C17_ReturnsFirstFinalAnswer ==
  /\ rpc = "return" =>
       /\ ret[1] \notin {401, 429}
       /\ ret[1] = cnt.last
       /\ ret[2].code = ret[1]
       /\ ret[2] = Respond(sent, ret[1], [job |-> ret[2].job, id |-> ret[2].id])
       /\ cnt.sent = cnt.n401 + cnt.n429 + 1
  /\ (op = "request" /\ fpc = "done" /\ result.kind = "response") =>
       /\ result.code \notin {401, 429}
       /\ result.code = ret[1]
       /\ result.resp = ret[2]
       /\ result.resp.code = result.code

\* A call answered 401, then 429, then 404 has returned the 404.
C17_Witness ==
  /\ op = "request" /\ fpc = "done" /\ result.kind = "response"
  /\ cnt.n401 = 1 /\ cnt.n429 = 1 /\ cnt.sent = 3
  /\ result.code = 404

\* C18, the job: a call has at most one submit answered 202, and while it
\* polls, fetches or downloads it has exactly that one, whose
\* processStatusId every status check asks for.
C18_OneJob ==
  op \in AsyncOps =>
    /\ job.accepted <= 1
    /\ fpc \in {"check", "fetch", "download"} =>
         /\ job.accepted = 1
         /\ job.subCode = 202
         /\ job.pid = ProcessId
    /\ (fpc \in {"check", "fetch"} /\ rpc # "idle") => rq.method = "GET"
    /\ fpc = "check" => rq.url = Url(StatusPath, job.pid)
    /\ fpc = "fetch" => rq.url.path \notin SubmitPaths \cup {StatusPath}
\* C18, the requests: every request dispatched during the status checks or
\* the result fetch is a GET that submits nothing, and one dispatched after
\* a 401 or a 429 is the GET that was answered so, to the same URL.
C18_SameGet ==
  (op \in AsyncOps /\ fpc \in {"check", "fetch"} /\ rpc = "send" /\ rpc' # "send") =>
     /\ sent'.method = "GET"
     /\ sent'.url = rq.url
     /\ job'.accepted = job.accepted
     /\ cnt.sent > 0 =>
          /\ cnt.last \in {401, 429}
          /\ sent'.method = sent.method
          /\ sent'.url = sent.url
          /\ sent'.data = sent.data
\* C18: one call of an asynchronous method has at most one job accepted;
\* 401s and 429s during the status checks and the result fetch lead to the
\* same GET being issued again, never to a second submit.
C18_SingleSubmit == [](C18_OneJob) /\ [][C18_SameGet]_vars

\* A job polled through a 401 or a 429, reported SUCCESS, whose result fetch
\* was answered 429: still the one job.
C18_Witness ==
  /\ op = "request_all_offers" /\ fpc = "fetch" /\ rpc = "backoff"
  /\ job.accepted = 1 /\ job.last = "SUCCESS"
  /\ job.http > job.checks
  /\ job.pending >= 1

\* C19 as stated: given the same answers, the three asynchronous methods
\* take the same submit, status-check, sleep and result-fetch steps, return
\* the same kind of result and print a diagnostic for the same failures.
C19_OneProtocol ==
  \A o1, o2 \in AsyncOps :
     (out[o1] # NoRun /\ out[o2] # NoRun) =>
        /\ out[o1].steps = out[o2].steps
        /\ out[o1].returns = out[o2].returns
        /\ out[o1].printed = out[o2].printed

\* C20, no longer than the service keeps it waiting: request sleeps and
\* re-issues only for a 401 or a 429 and has returned with the first other
\* answer, an asynchronous method sleeps once per PENDING report and is over
\* when a report other than PENDING was not SUCCESS or the fetch was answered.
C20_NoExtraWait ==
  /\ rpc \in {"reauth", "backoff"} => cnt.last \in {401, 429}
  /\ rpc = "return" => (cnt.last \notin {401, 429} /\ cnt.sleeps = cnt.n429)
  /\ op \in AsyncOps =>
       /\ job.sleeps = job.pending
       /\ job.last \notin {"none", "PENDING", "SUCCESS"} => fpc = "done"
       /\ ~(fpc = "done" /\ result.kind # "raise" /\ job.last = "PENDING")
\* C20: a call waits for nothing but the service, and once the service stops
\* answering 401 and 429 and the job leaves PENDING, the call is over: at
\* any time, the call in progress (if any) comes to its end.
C20_BlocksOnlyOnService == [](C20_NoExtraWait) /\ []<>(fpc = "done")

\* A method kept waiting as long as the service can keep one waiting, by
\* PENDING reports, 401s and 429s, that returned when the waiting ended.
C20_Witness ==
  /\ op \in AsyncOps /\ fpc = "done" /\ result.kind \notin {"raise", "none"}
  /\ job.pending = MaxPending /\ job.t429 = Max429 /\ job.t401 = Max401
  /\ job.last = "SUCCESS"

\* The methods that fetch a URL taken from a response body.
SecondaryOps == {"request_bulk_report", "request_campaigns_report", "request_product_image"}

\* C21, the secondary fetch: it is made once, for the URL the body named,
\* with none of the session's headers (no Authorization), and whatever it
\* is answered the method is over.
C21_Unauthenticated ==
  (op \in SecondaryOps /\ job.downloads > 0) =>
       /\ job.downloads = 1
       /\ job.dlurl = DownloadId
       /\ job.dlhdr = EmptyDict
       /\ job.dlhdr["Authorization"] = Absent
       /\ fpc = "done"
\* C21, its answer: the step that makes the secondary fetch leaves the
\* session and request alone: no re-authentication, no sleep, no request
\* through request, whether the answer is 401, 429 or any other status.
C21_NoRetry ==
  (fpc = "download" /\ fpc' # "download") =>
     /\ headers' = headers /\ valid' = valid /\ issued' = issued /\ tokAns' = tokAns
     /\ cnt' = cnt /\ sent' = sent
     /\ job'.downloads = 1
     /\ job'.t401 = job.t401 /\ job'.t429 = job.t429
     /\ fpc' = "done" /\ rpc' = "idle"
\* C21: the bearer token goes out only in requests made by request; the
\* fetch of an image URL or of a signed download URL carries no header of
\* the session, and a 401 or 429 answered to it is neither followed by a
\* re-authentication nor by another fetch.
C21_TokenOnlyToApi == [](C21_Unauthenticated) /\ [][C21_NoRetry]_vars

\* A report downloaded by a client that holds a token: the download was
\* answered 401 and the method ended without a re-authentication.
C21_Witness ==
  /\ op = "request_bulk_report" /\ fpc = "done"
  /\ headers["Authorization"] # Absent
  /\ job.downloads = 1 /\ job.dlcode = 401
  /\ job.t401 = 0 /\ job.t429 = 0
  /\ cnt.auth = 0 /\ cnt.sleeps = 0
  /\ result.kind = "DataFrame"

\* C22, no coordination between callers: every 401 answered to a caller
\* makes that caller call get_access_token itself, whatever the other
\* caller has done to the session meanwhile, ...
C22_OwnReauth ==
  \A c \in Callers :
     /\ call[c].n401 = call[c].auths + (IF call[c].pc = "reauth" THEN 1 ELSE 0)
     /\ call[c].pc = "reauth" => c \in out.reauthBy[TokenId(call[c].carried)]
\* ... and each get_access_token writes self.valid from its own answer and
\* self.headers from its own token, in two separate steps, in place.
C22_InPlace ==
  /\ valid' # valid =>
       \E c \in Callers :
          /\ call[c].pc = "token_status"
          /\ valid' = IF call[c].tok.status = 200 THEN "True" ELSE "False"
          /\ headers' = headers
  /\ headers' # headers =>
       \E c \in Callers :
          /\ call[c].pc = "token_store"
          /\ headers'["Authorization"] = Bearer(call[c].tok.token)
          /\ valid' = valid
\* C22: two callers of one instance each re-authenticate for the 401 they
\* were answered, and each re-authentication writes valid and headers on its
\* own; the witness is the interleaving the claim names.
C22_UnsafeForTwoCallers == [](C22_OwnReauth) /\ [][C22_InPlace]_vars

\* One token expired once; both callers re-authenticated for it; the
\* session holds the token the first of them stored, which the service
\* accepts, and valid is False, written by the one that finished last.
C22_Witness ==
  /\ out.expiries = 1
  /\ \E t \in out.expired : out.reauthBy[t] = Callers
  /\ valid = "False"
  /\ ~Rejected(headers["Authorization"])
  /\ \E c \in Callers : call[c].tok.status = 200 /\ headers["Authorization"] = Bearer(call[c].tok.token)
====
